---- MODULE Spec2Model ----
(***************************************************************************)
(* Model of src/main.py: the POST /pipelines/parse handler parse_pipeline  *)
(* and the cycle check is_dag (Kahn's algorithm) it calls.                  *)
(*                                                                         *)
(* A node is modelled by its id (is_dag reads no other field of Node), an  *)
(* edge by the record [source, target] (is_dag never reads Edge.id).       *)
(* Python dicts are functions whose DOMAIN is the key set; their iteration *)
(* order (insertion order) is DictKeys.  Python ints are unbounded, so no  *)
(* width is modelled.                                                      *)
(***************************************************************************)
EXTENDS Integers, Sequences, FiniteSets, TLC

\* ------------------------------------------------------------------ bounds
\* Longest node list and longest edge list of a request.
MaxNodes == 3
MaxEdges == 3

\* The identifiers a request may use.  A request need not declare all of
\* them, so edges naming an undeclared identifier are among the inputs.
Ids == {"A", "B", "C"}

\* ----------------------------------------------------------------- helpers
Range(s) == {s[k] : k \in DOMAIN s}

SeqsUpTo(S, n) == UNION {[1..m -> S] : m \in 0..n}

\* Edge(source, target): the two fields of the pydantic model is_dag reads.
Edge == [source : Ids, target : Ids]

\* The sequence s without its k-th element (list.pop(k-1) on a Python list).
RemoveAt(s, k) == [j \in 1..(Len(s) - 1) |-> IF j < k THEN s[j] ELSE s[j + 1]]

\* Keys of {node.id: ... for node in nodes} in dict iteration order: each
\* identifier once, at the position of its first occurrence.
DictKeys(ns) ==
  LET F[k \in 0..Len(ns)] ==
        IF k = 0 THEN <<>>
        ELSE LET p == F[k - 1]
             IN IF ns[k] \in Range(p) THEN p ELSE Append(p, ns[k])
  IN F[Len(ns)]

\* adj_list = {node.id: [] for node in nodes}
NewAdjList(ns) == [n \in Range(ns) |-> <<>>]

\* in_degree = {node.id: 0 for node in nodes}
NewInDegree(ns) == [n \in Range(ns) |-> 0]

\* Mutant of PopulateEdge: the target's in-degree is set to 1, not incremented.
PopulateEdgeSetsDegree(adj, deg, e) ==
  IF e.source \notin DOMAIN adj
  THEN [adj |-> adj, deg |-> deg, raised |-> TRUE]
  ELSE LET adj2 == [adj EXCEPT ![e.source] = Append(@, e.target)]
       IN IF e.target \notin DOMAIN deg
          THEN [adj |-> adj2, deg |-> deg, raised |-> TRUE]
          ELSE [adj |-> adj2,
                deg |-> [deg EXCEPT ![e.target] = 1],
                raised |-> FALSE]

\* Mutant of PopulateEdge: an edge from a node to itself is skipped.
PopulateEdgeSkipsSelfLoop(adj, deg, e) ==
  IF e.source \notin DOMAIN adj
  THEN [adj |-> adj, deg |-> deg, raised |-> TRUE]
  ELSE IF e.source = e.target
       THEN [adj |-> adj, deg |-> deg, raised |-> FALSE]
       ELSE LET adj2 == [adj EXCEPT ![e.source] = Append(@, e.target)]
            IN IF e.target \notin DOMAIN deg
               THEN [adj |-> adj2, deg |-> deg, raised |-> TRUE]
               ELSE [adj |-> adj2,
                     deg |-> [deg EXCEPT ![e.target] = @ + 1],
                     raised |-> FALSE]

\* One iteration of "for edge in edges".  adj_list[edge.source] raises
\* KeyError when the source is no key; otherwise the append is done and
\* in_degree[edge.target] += 1 raises KeyError when the target is no key.
PopulateEdge(adj, deg, e) ==
  IF e.source \notin DOMAIN adj
  THEN [adj |-> adj, deg |-> deg, raised |-> TRUE]
  ELSE LET adj2 == [adj EXCEPT ![e.source] = Append(@, e.target)]
       IN IF e.target \notin DOMAIN deg
          THEN [adj |-> adj2, deg |-> deg, raised |-> TRUE]
          ELSE [adj |-> adj2,
                deg |-> [deg EXCEPT ![e.target] = @ + 1],
                raised |-> FALSE]

\* Mutant of SeedQueue: every node is queued, whatever its in-degree.
SeedQueueAll(ns, deg) == DictKeys(ns)

\* Mutant of SeedQueue: only the first node of in-degree 0 is queued.
SeedQueueFirstOnly(ns, deg) ==
  LET zero(n) == deg[n] = 0
      all == SelectSeq(DictKeys(ns), zero)
  IN IF all = <<>> THEN <<>> ELSE <<Head(all)>>

\* queue = [node_id for node_id, degree in in_degree.items() if degree == 0]
SeedQueue(ns, deg) ==
  LET zero(n) == deg[n] = 0 IN SelectSeq(DictKeys(ns), zero)

\* Mutant of Enqueue: the queue is overwritten by the new node.
EnqueueOverwrites(q, n) == <<n>>

\* queue.append(neighbor)
Enqueue(q, n) == Append(q, n)

\* Mutant of Relax: in-degrees are decremented but nothing is enqueued.
RelaxNeverEnqueues(deg, q, nbrs) ==
  LET F[k \in 0..Len(nbrs)] ==
        IF k = 0 THEN [deg |-> deg, q |-> q]
        ELSE LET p == F[k - 1]
                 d == p.deg[nbrs[k]] - 1
             IN [deg |-> [p.deg EXCEPT ![nbrs[k]] = d], q |-> p.q]
  IN F[Len(nbrs)]

\* Mutant of Relax: a neighbour is enqueued when its in-degree drops to 1.
RelaxEnqueuesEarly(deg, q, nbrs) ==
  LET F[k \in 0..Len(nbrs)] ==
        IF k = 0 THEN [deg |-> deg, q |-> q]
        ELSE LET p == F[k - 1]
                 d == p.deg[nbrs[k]] - 1
             IN [deg |-> [p.deg EXCEPT ![nbrs[k]] = d],
                 q   |-> IF d = 1 THEN Append(p.q, nbrs[k]) ELSE p.q]
  IN F[Len(nbrs)]

\* Mutant of Relax: every neighbour is enqueued, whatever its in-degree.
RelaxAlwaysEnqueues(deg, q, nbrs) ==
  LET F[k \in 0..Len(nbrs)] ==
        IF k = 0 THEN [deg |-> deg, q |-> q]
        ELSE LET p == F[k - 1]
                 d == p.deg[nbrs[k]] - 1
             IN [deg |-> [p.deg EXCEPT ![nbrs[k]] = d],
                 q   |-> Append(p.q, nbrs[k])]
  IN F[Len(nbrs)]

\* "for neighbor in adj_list[current_node]": decrement the neighbour's
\* in-degree and enqueue it when the in-degree becomes 0.
Relax(deg, q, nbrs) ==
  LET F[k \in 0..Len(nbrs)] ==
        IF k = 0 THEN [deg |-> deg, q |-> q]
        ELSE LET p == F[k - 1]
                 d == p.deg[nbrs[k]] - 1
             IN [deg |-> [p.deg EXCEPT ![nbrs[k]] = d],
                 q   |-> IF d = 0 THEN Enqueue(p.q, nbrs[k]) ELSE p.q]
  IN F[Len(nbrs)]

\* return processed_count == len(nodes)
Verdict(count, ns) == count = Len(ns)

\* -------------------------------------------- is_dag as a function of input
\* The whole "for edge in edges" loop; it stops at the first KeyError.
PopulateAll(ns, es) ==
  LET F[k \in 0..Len(es)] ==
        IF k = 0
        THEN [adj |-> NewAdjList(ns), deg |-> NewInDegree(ns), raised |-> FALSE]
        ELSE LET p == F[k - 1]
             IN IF p.raised THEN p ELSE PopulateEdge(p.adj, p.deg, es[k])
  IN F[Len(es)]

\* The whole "while queue" loop with queue.pop(0); yields processed_count.
RECURSIVE Drain(_, _, _, _)
Drain(adj, deg, q, count) ==
  IF q = <<>> THEN count
  ELSE LET r == Relax(deg, Tail(q), adj[Head(q)])
       IN Drain(adj, r.deg, r.q, count + 1)

\* processed_count when is_dag reaches its return statement.
ProcessedCount(ns, es) ==
  LET p == PopulateAll(ns, es)
  IN Drain(p.adj, p.deg, SeedQueue(ns, p.deg), 0)

\* is_dag(nodes, edges): the boolean it returns, or the exception it raises.
is_dag(ns, es) ==
  LET p == PopulateAll(ns, es)
  IN IF p.raised THEN "KeyError"
     ELSE Verdict(Drain(p.adj, p.deg, SeedQueue(ns, p.deg), 0), ns)

\* ------------------------------------------------------------------- state
VARIABLES
  nodes,            \* pipeline.nodes, as the list of node ids
  edges,            \* pipeline.edges, as the list of [source, target]
  pc,               \* position of the request in parse_pipeline / is_dag
  num_nodes,        \* local of parse_pipeline
  num_edges,        \* local of parse_pipeline
  adj_list,         \* local of is_dag
  in_degree,        \* local of is_dag
  next_edge,        \* index of the edge the "for edge in edges" loop is at
  queue,            \* local of is_dag
  processed_count,  \* local of is_dag
  order,            \* history: the successive values of current_node
  response          \* what parse_pipeline returns

vars == <<nodes, edges, pc, num_nodes, num_edges, adj_list, in_degree,
          next_edge, queue, processed_count, order, response>>

NoResponse == [status |-> "none"]

\* A request body that passed pydantic validation: any list of nodes (node
\* ids need not be distinct) and any list of edges (endpoints need not be
\* declared).
Init ==
  /\ nodes \in SeqsUpTo(Ids, MaxNodes)
  /\ edges \in SeqsUpTo(Edge, MaxEdges)
  /\ pc = "received"
  /\ num_nodes = 0
  /\ num_edges = 0
  /\ adj_list = [n \in {} |-> <<>>]
  /\ in_degree = [n \in {} |-> 0]
  /\ next_edge = 1
  /\ queue = <<>>
  /\ processed_count = 0
  /\ order = <<>>
  /\ response = NoResponse

\* parse_pipeline up to the call of is_dag, and is_dag up to the edge loop.
Enter ==
  /\ pc = "received"
  /\ num_nodes' = Len(nodes)
  /\ num_edges' = Len(edges)
  /\ adj_list' = NewAdjList(nodes)
  /\ in_degree' = NewInDegree(nodes)
  /\ next_edge' = 1
  /\ pc' = "populate"
  /\ UNCHANGED <<nodes, edges, queue, processed_count, order, response>>

\* One iteration of the edge loop; a KeyError leaves is_dag and
\* parse_pipeline (neither catches it).
Populate ==
  /\ pc = "populate"
  /\ next_edge <= Len(edges)
  /\ LET r == PopulateEdge(adj_list, in_degree, edges[next_edge])
     IN /\ adj_list' = r.adj
        /\ in_degree' = r.deg
        /\ pc' = IF r.raised THEN "KeyError" ELSE "populate"
        /\ next_edge' = IF r.raised THEN next_edge ELSE next_edge + 1
  /\ UNCHANGED <<nodes, edges, num_nodes, num_edges, queue, processed_count,
                 order, response>>

\* The edge loop is over: seed the queue, processed_count = 0.
Seed ==
  /\ pc = "populate"
  /\ next_edge > Len(edges)
  /\ queue' = SeedQueue(nodes, in_degree)
  /\ processed_count' = 0
  /\ pc' = "loop"
  /\ UNCHANGED <<nodes, edges, num_nodes, num_edges, adj_list, in_degree,
                 next_edge, order, response>>

\* One iteration of "while queue" that removes the k-th queued node.
ProcessNodeAt(k) ==
  /\ pc = "loop"
  /\ k \in 1..Len(queue)
  /\ LET current_node == queue[k]
         r == Relax(in_degree, RemoveAt(queue, k), adj_list[current_node])
     IN /\ processed_count' = processed_count + 1
        /\ in_degree' = r.deg
        /\ queue' = r.q
        /\ order' = Append(order, current_node)
  /\ UNCHANGED <<nodes, edges, pc, num_nodes, num_edges, adj_list, next_edge,
                 response>>

\* The code's iteration: current_node = queue.pop(0).
ProcessNode == ProcessNodeAt(1)

\* The queue is empty: is_dag returns and parse_pipeline builds its result.
Return ==
  /\ pc = "loop"
  /\ queue = <<>>
  /\ response' = [status |-> "ok",
                  num_nodes |-> num_nodes,
                  num_edges |-> num_edges,
                  is_dag |-> Verdict(processed_count, nodes)]
  /\ pc' = "done"
  /\ UNCHANGED <<nodes, edges, num_nodes, num_edges, adj_list, in_degree,
                 next_edge, queue, processed_count, order>>

Next == Enter \/ Populate \/ Seed \/ ProcessNode \/ Return

Spec == Init /\ [][Next]_vars

\* The same request handled with an arbitrary queue discipline: the node
\* removed by an iteration of "while queue" is any queued node (the code's
\* pop(0) is the case k = 1).
NextAnyOrder ==
  \/ Enter
  \/ Populate
  \/ Seed
  \/ \E k \in 1..Len(queue) : ProcessNodeAt(k)
  \/ Return

SpecAnyOrder == Init /\ [][NextAnyOrder]_vars

\* The requests whose graph is valid (distinct node ids, every edge endpoint
\* declared), handled by the code with its scheduling made explicit: is_dag
\* is straight-line synchronous code, so a step that can be taken is taken.
InitValid ==
  /\ Init
  /\ Cardinality(Range(nodes)) = Len(nodes)
  /\ \A k \in 1..Len(edges) :
        edges[k].source \in Range(nodes) /\ edges[k].target \in Range(nodes)

FairValidSpec == InitValid /\ [][Next]_vars /\ WF_vars(Next)

\* ------------------------------------------------- graph-theoretic notions
\* (the vocabulary of the claims; none of this is computed by the code)

\* The node ids are pairwise distinct.
Distinct(ns) == Cardinality(Range(ns)) = Len(ns)

\* Every edge endpoint is a declared node.
Declared(ns, es) ==
  \A e \in Range(es) : e.source \in Range(ns) /\ e.target \in Range(ns)

\* A valid graph: distinct node ids, no dangling edge.
Valid(ns, es) == Distinct(ns) /\ Declared(ns, es)

\* The nodes reachable from the set S by zero or more edges of E.
RECURSIVE Reachable(_, _)
Reachable(E, S) ==
  LET S2 == S \cup {e.target : e \in {x \in E : x.source \in S}}
  IN IF S2 = S THEN S ELSE Reachable(E, S2)

\* The nodes reachable from n by one or more edges of E.
ReachPlus(E, n) == Reachable(E, {e.target : e \in {x \in E : x.source = n}})

\* n lies on a directed cycle of E (a self-loop is a cycle).
OnCycle(E, n) == n \in ReachPlus(E, n)

\* E has no directed cycle.
Acyclic(E) == \A e \in E : ~OnCycle(E, e.source)

\* The nodes that lie on a cycle or are reachable from a node on a cycle.
CycleTainted(E) ==
  UNION {{c} \cup ReachPlus(E, c) : c \in {e.source : e \in {x \in E : OnCycle(E, x.source)}}}

\* Number of positions of es (among the first m) whose edge satisfies P.
Count(es, m, P(_)) == Cardinality({k \in 1..m : k <= Len(es) /\ P(es[k])})

\* es with every repeated (source, target) pair collapsed to its first copy.
Collapse(es) ==
  LET F[k \in 0..Len(es)] ==
        IF k = 0 THEN <<>>
        ELSE LET p == F[k - 1]
             IN IF es[k] \in Range(p) THEN p ELSE Append(p, es[k])
  IN F[Len(es)]

\* All reorderings of the sequence s.
RECURSIVE Reorderings(_)
Reorderings(s) ==
  IF s = <<>> THEN {<<>>}
  ELSE UNION {{<<s[k]>> \o t : t \in Reorderings(RemoveAt(s, k))} : k \in 1..Len(s)}

\* es is one simple directed cycle through all of the k >= 2 distinct nodes.
SimpleCycle(ns, es) ==
  /\ Valid(ns, es)
  /\ Len(ns) >= 2
  /\ Len(es) = Len(ns)
  /\ \A n \in Range(ns) :
       /\ Cardinality({k \in 1..Len(es) : es[k].source = n}) = 1
       /\ Cardinality({k \in 1..Len(es) : es[k].target = n}) = 1
       /\ ReachPlus(Range(es), n) = Range(ns)

HasSelfLoop(es) == \E e \in Range(es) : e.source = e.target

NoRepeats(s) == \A a, b \in 1..Len(s) : s[a] = s[b] => a = b

\* ------------------------------------------------------------------ claims

\* C1: for distinct node ids and edges between declared nodes, is_dag
\* returns true exactly when the edges contain no directed cycle (a
\* self-loop being a cycle).
C1_VerdictIffAcyclic ==
  (pc = "done" /\ Valid(nodes, edges)) =>
     /\ response.is_dag = Acyclic(Range(edges))
     /\ is_dag(nodes, edges) = Acyclic(Range(edges))

\* A valid three-edge graph with a cycle has been judged.
C1_Witness ==
  /\ pc = "done"
  /\ Valid(nodes, edges)
  /\ Len(edges) = 3
  /\ ~Acyclic(Range(edges))
  /\ response.is_dag = FALSE

\* C2: an edge naming an undeclared identifier does not make is_dag (or
\* parse_pipeline) end in an unhandled fault.
C2_NoFaultOnDanglingEdge ==
  ~Declared(nodes, edges) => pc # "KeyError"

\* C3: with a repeated node id, is_dag returns the verdict of the graph
\* over the distinct ids, so an acyclic graph is still reported as a DAG.
C3_DuplicatesDoNotCorrupt ==
  (pc = "done" /\ ~Distinct(nodes)) =>
     /\ response.is_dag = is_dag(DictKeys(nodes), edges)
     /\ Acyclic(Range(edges)) => response.is_dag = TRUE

\* C4: on a valid graph, while the edges are read each in-degree is the
\* number of edge occurrences read so far that target the node; in the
\* queue loop each in-degree is the number of occurrences targeting the node
\* whose source has not been processed (so each occurrence was decremented
\* once, when its source was processed); and the verdict is that of the
\* graph with parallel edges collapsed.
C4_ParallelEdgesAccounted ==
  Valid(nodes, edges) =>
     /\ pc = "populate" =>
          \A n \in Range(nodes) :
             LET into(e) == e.target = n
             IN in_degree[n] = Count(edges, next_edge - 1, into)
     /\ pc \in {"loop", "done"} =>
          \A n \in Range(nodes) :
             LET pending(e) == e.target = n /\ e.source \notin Range(order)
             IN in_degree[n] = Count(edges, Len(edges), pending)
     /\ pc = "done" => response.is_dag = is_dag(nodes, Collapse(edges))

\* A valid graph with a repeated edge has been judged acyclic.
C4_Witness ==
  /\ pc = "done"
  /\ Valid(nodes, edges)
  /\ Len(Collapse(edges)) < Len(edges)
  /\ Len(Collapse(edges)) >= 2
  /\ response.is_dag = TRUE

\* C5 (under SpecAnyOrder): on a valid graph, whichever queued node each
\* iteration removes, the final processed count and the verdict are those
\* of the code's FIFO run on every reordering of the edge list.
C5_OrderIndependent ==
  (pc = "done" /\ Valid(nodes, edges)) =>
     \A p \in Reorderings(edges) :
        /\ processed_count = ProcessedCount(nodes, p)
        /\ response.is_dag = is_dag(nodes, p)

\* A run that did not follow FIFO order has finished on a graph with edges.
C5_Witness ==
  /\ pc = "done"
  /\ Valid(nodes, edges)
  /\ Len(edges) >= 2
  /\ Len(order) = 3
  /\ order[1] # SeedQueue(nodes, PopulateAll(nodes, edges).deg)[1]

\* C6: a simple directed cycle through k >= 2 distinct nodes is not a DAG,
\* and becomes one when any single edge of it is removed.
C6_SimpleCycle ==
  (pc = "done" /\ SimpleCycle(nodes, edges)) =>
     /\ response.is_dag = FALSE
     /\ \A k \in 1..Len(edges) : is_dag(nodes, RemoveAt(edges, k)) = TRUE

\* A cycle of length three has been judged.
C6_Witness ==
  /\ pc = "done"
  /\ SimpleCycle(nodes, edges)
  /\ Len(nodes) = 3
  /\ response.is_dag = FALSE

\* C7: a valid graph with a self-loop is not a DAG: the self-looped node
\* is never queued and never processed.
C7_SelfLoop ==
  (Valid(nodes, edges) /\ HasSelfLoop(edges)) =>
     /\ pc \in {"loop", "done"} =>
          \A e \in Range(edges) :
             e.source = e.target =>
                /\ e.source \notin Range(order) \cup Range(queue)
                /\ in_degree[e.source] > 0
     /\ pc = "done" => response.is_dag = FALSE

\* A graph with a self-loop and other processed nodes has been judged.
C7_Witness ==
  /\ pc = "done"
  /\ Valid(nodes, edges)
  /\ HasSelfLoop(edges)
  /\ Len(order) = 2
  /\ response.is_dag = FALSE

\* C8: with no edges and n >= 0 distinct nodes, parse_pipeline returns
\* num_nodes = n, num_edges = 0, is_dag = true (n = 0 included).
C8_NoEdges ==
  (pc = "done" /\ Distinct(nodes) /\ edges = <<>>) =>
     response = [status |-> "ok", num_nodes |-> Len(nodes), num_edges |-> 0,
                 is_dag |-> TRUE]

\* The empty graph has been answered.
C8_Witness ==
  /\ pc = "done"
  /\ nodes = <<>>
  /\ edges = <<>>
  /\ response = [status |-> "ok", num_nodes |-> 0, num_edges |-> 0,
                 is_dag |-> TRUE]

\* C9: on a valid graph, once the queue is empty the unprocessed nodes are
\* exactly those on a directed cycle or reachable from one; and at any time
\* a processed node was dequeued after all of its predecessors.
C9_ResidueIsCycleTainted ==
  (Valid(nodes, edges) /\ pc \in {"loop", "done"}) =>
     /\ queue = <<>> =>
          Range(nodes) \ Range(order) = CycleTainted(Range(edges))
     /\ \A j \in 1..Len(order) :
          \A e \in Range(edges) :
             e.target = order[j] => \E i \in 1..(j - 1) : order[i] = e.source

\* The queue emptied with one node processed and two left behind, one of
\* them off the cycle.
C9_Witness ==
  /\ pc = "loop"
  /\ queue = <<>>
  /\ Valid(nodes, edges)
  /\ Len(order) = 1
  /\ Len(nodes) = 3
  /\ \E n \in Range(nodes) \ Range(order) : ~OnCycle(Range(edges), n)

\* The quantities C10 bounds, in a state of the edge loop or the queue loop.
C10_Bounded ==
  (Valid(nodes, edges) /\ pc \in {"populate", "loop", "done"}) =>
     /\ \A n \in Range(nodes) : in_degree[n] >= 0
     /\ NoRepeats(order \o queue)
     /\ processed_count = Len(order)
     /\ processed_count + Len(queue) <= Len(nodes)

\* C10 (under FairValidSpec): on a valid graph every in-degree stays >= 0,
\* no node is enqueued twice, processed_count (the number of dequeues) never
\* exceeds the number of declared nodes, and the queue loop ends with is_dag
\* returning.
C10_Terminates == []C10_Bounded /\ <>(pc = "done")

\* A run dequeued every declared node of a three-node graph with edges.
C10_Witness ==
  /\ pc = "done"
  /\ Valid(nodes, edges)
  /\ Len(edges) = 3
  /\ processed_count = 3
  /\ Len(nodes) = 3

====
